---- MODULE Spec2Model ----
(***************************************************************************)
(* Model of lib/convert.js: the Converter class that drives ImageMagick's  *)
(* convert as a child process.                                           *)
(*                                                                         *)
(* A conversion ("run") is one call of Converter.proceed (buffered) or     *)
(* Converter.pipe (fan-out).  The program state is the promise each call   *)
(* returns, the chunk store of a buffered run, and the listeners on the    *)
(* host's process 'exit' event.  The environment is the child process, its *)
(* three stdio streams, the Fork writable of a fan-out run with its        *)
(* destination streams, and the host process exiting.  Every event the     *)
(* environment emits is one action: the action's guard says when the       *)
(* environment can emit it and its effect is the listener(s) convert.js    *)
(* attached to it, run to completion (JavaScript runs a listener without   *)
(* interleaving).                                                          *)
(*                                                                         *)
(* The command the child process is spawned with is composed from the      *)
(* Converter's options by getHandle, getArgs, resizeFactory and            *)
(* geometryFactory.  These are functions of the options; they are checked  *)
(* under the specification SpecBuild, which draws the options object of    *)
(* the caller, constructs the Converter and composes the command.          *)
(***************************************************************************)
EXTENDS Integers, Sequences, FiniteSets

\* ---------------------------------------------------------------- bounds
\* conversions that may be started (they run concurrently)
MaxRuns == 2
\* stdout 'data' events one buffered run may receive
MaxChunks == 2
\* destination streams one fan-out run may be given
MaxSinks == 2
\* state-changing steps of a behaviour: operations called and events
\* delivered, over all runs
MaxSteps == 4
\* keys the options object of the caller may have
MaxGiven == 4

Runs == 1 .. MaxRuns

\* ------------------------------------------------------------ JS values
\* A JavaScript value: t is its type tag, s its text (string, Error
\* message), b its bytes (Buffer), n its number (number; boolean as 1, 0).
Undefined == [t |-> "undefined", s |-> "", b |-> << >>, n |-> 0]
Null == [t |-> "null", s |-> "", b |-> << >>, n |-> 0]
Str(x) == [t |-> "string", s |-> x, b |-> << >>, n |-> 0]
Buf(bytes) == [t |-> "Buffer", s |-> "", b |-> bytes, n |-> 0]
Err(msg) == [t |-> "Error", s |-> msg, b |-> << >>, n |-> 0]
Num(k) == [t |-> "number", s |-> "", b |-> << >>, n |-> k]
Bool(x) == [t |-> "boolean", s |-> "", b |-> << >>, n |-> IF x THEN 1 ELSE 0]

\* the chunks a stream 'data' event may carry, of the bytes 'a' and 'b'
Chunks == {<<97>>, <<98, 97>>}

\* JavaScript truthiness, as (source && ...), (value || ...), if (format)
\* and !resize test it
Truthy(v) ==
  CASE v.t = "undefined" -> FALSE
    [] v.t = "null" -> FALSE
    [] v.t = "string" -> v.s # ""
    [] v.t = "number" -> v.n # 0
    [] v.t = "boolean" -> v.n = 1
    [] OTHER -> TRUE

\* source instanceof Buffer
InstanceOfBuffer(v) == v.t = "Buffer"

\* one byte decoded as UTF-8 text
Chr(c) == IF c = 97 THEN "a" ELSE IF c = 98 THEN "b" ELSE "?"

RECURSIVE Utf8(_)
\* the text of a byte sequence
Utf8(bytes) ==
  IF bytes = << >> THEN "" ELSE Chr(Head(bytes)) \o Utf8(Tail(bytes))

\* data.toString() of a value handed to a listener: the text of a Buffer,
\* "Error: <message>" of an Error
toString(v) ==
  CASE v.t = "Buffer" -> Str(Utf8(v.b))
    [] v.t = "Error" -> Str("Error: " \o v.s)
    [] v.t = "string" -> v
    [] OTHER -> Str(v.t)

\* Buffer.from(data): a fresh Buffer holding a copy of data's bytes
BufferFrom(data) == Buf([i \in 1 .. Len(data.b) |-> data.b[i]])

RECURSIVE ConcatBytes(_)
ConcatBytes(list) ==
  IF list = << >> THEN << >> ELSE Head(list).b \o ConcatBytes(Tail(list))

\* Buffer.concat(store): one Buffer holding the bytes of every Buffer of
\* the list, in list order
BufferConcat(list) == Buf(ConcatBytes(list))

\* the values of option srcData a caller may construct a Converter with
Sources == {Undefined, Null, Str("PNG"), Buf(<< >>), Buf(<<97>>)}

\* the Error a failing event source reports
SpawnErr == Err("spawn convert ENOENT")
StdinErr == Err("write EPIPE")
StdoutErr == Err("read EIO")
StderrErr == Err("read ECONNRESET")
SinkErr(i) ==
  Err(CASE i = 1 -> "sink 1: write EIO"
        [] i = 2 -> "sink 2: write ENOSPC"
        [] OTHER -> "sink: write EPIPE")
ThrownErr == Err("spawn EMFILE")
InvalidInput ==
  Err("imagemagick-convert: the field srcData is required and should have Buffer type")

\* ---------------------------------------------------------------- state
VARIABLES
  mode,         \* run -> "idle" | "proceed" | "pipe": the operation called
  promise,      \* run -> the promise the operation returned
  store,        \* run -> the chunk list store of proceed
  stdin,        \* run -> "open" | "ended": cp.stdin, ended once the source is written
  proc,         \* run -> "none" | "running" | "exited" | "failed" | "gone"
  killed,       \* run -> cp.kill() was called
  outState,     \* run -> "open" | "ended" | "finished": cp.stdout and the Fork
  sinks,        \* run -> the state of each destination stream of pipe
  exitHooks,    \* the listeners of process 'exit', as the runs they close over
  host,         \* "up" | "exited" | "crashed": the host process
  nSteps,       \* operations called and events delivered that changed the state
  delivered,    \* run -> the bytes stdout 'data' events delivered (history)
  firstEv,      \* run -> the first event with a settling listener (history)
  diag,         \* run -> "none" | "live" | "late": stderr data seen (history)
  nSettle,      \* run -> times the promise's outcome was written (history)
  given,        \* the options object the caller constructs the Converter with
  options,      \* this.options of the Converter
  command       \* the handles and the argument list composed for spawn

\* the conversions and their environment
runVars ==
  << mode, promise, store, stdin, proc, killed, outState, sinks,
     exitHooks, host, nSteps, delivered, firstEv, diag, nSettle >>

\* the Converter's configuration and the command composed from it
buildVars == << given, options, command >>

vars == << runVars, buildVars >>

NoEvent == [kind |-> "none", val |-> Undefined]
Event(k, v) == [kind |-> k, val |-> v]

\* ------------------------------------------------------------- promises
NoPromise == [state |-> "none", value |-> Undefined]
PendingPromise == [state |-> "pending", value |-> Undefined]
Fulfilled(v) == [state |-> "fulfilled", value |-> v]
Rejected(v) == [state |-> "rejected", value |-> v]

Pending(r) == promise[r].state = "pending"
Settled(r) == promise[r].state \in {"fulfilled", "rejected"}

ResolveOverwrites(p, v) == Fulfilled(v)

\* resolve(v) of new Promise((resolve, reject) => ...): settles a pending
\* promise, and does nothing to a settled one
Resolve(p, v) == IF p.state = "pending" THEN Fulfilled(v) ELSE p

RejectOverwrites(p, v) == Rejected(v)

\* reject(v): likewise
Reject(p, v) == IF p.state = "pending" THEN Rejected(v) ELSE p

\* ------------------------------------------------------------ listeners
\* the instanceof test left out
ValidTruthyOnly(source) == Truthy(source)

\* if (source && (source instanceof Buffer))
Valid(source) == Truthy(source) /\ InstanceOfBuffer(source)

\* cp.on('error'), cp.stdout.on('error'), cp.stderr.on('error'):
\* (data) => reject(data.toString())
OnError(p, e) == Reject(p, toString(e))

\* the chunk rejected as it is, not as text
OnStderrDataRaw(p, data) == Reject(p, data)

\* stderr data logged and not rejected
OnStderrDataIgnored(p, data) == p

\* cp.stderr.on('data', (data) => reject(data.toString()))
OnStderrData(p, data) == Reject(p, toString(data))

\* store.unshift in place of store.push
OnStdoutDataUnshift(st, data) == << BufferFrom(data) >> \o st

\* cp.stdout.on('data', (data) => store.push(Buffer.from(data)))
OnStdoutData(st, data) == Append(st, BufferFrom(data))

\* cp.stdout.on('end', () => resolve(Buffer.concat(store)))
OnStdoutEnd(p, st) == Resolve(p, BufferConcat(st))

\* fork.on('finish', () => { resolve() })
OnForkFinish(p) == Resolve(p, Undefined)

\* the error listener wired to resolve
OnForkErrorResolves(p, e) == Resolve(p, Undefined)

\* fork.on('error', (error) => { reject(error) })
OnForkError(p, e) == Reject(p, e)

\* } catch (e) { reject(e) }
OnCatch(p, e) == Reject(p, e)

\* cp.stdin.end(source): the source is written and the stream is closed
StdinEnd(st, source) == IF st = "open" THEN "ended" ELSE st

\* the listener replaces the ones registered before it
RegisterExitHookReplaces(hooks, r) == << r >>

\* process.on('exit', () => cp.kill()): one more listener, closing over
\* this run's cp
RegisterExitHook(hooks, r) == Append(hooks, r)

\* process emits 'exit': every listener runs, each calls its cp.kill()
RunExitHooks(hooks, k) ==
  [q \in Runs |-> k[q] \/ (\E i \in 1 .. Len(hooks) : hooks[i] = q)]

\* what spawn() leaves behind: a running child, or (ENOENT and the like) a
\* ChildProcess with its streams that will emit 'error'
Spawned(outcome) == IF outcome = "ok" THEN "running" ELSE "failed"

\* what spawn() can do: start the child, fail asynchronously, or throw
SpawnOutcomes == {"ok", "enoent", "throw"}

\* ------------------------------------------------------ command builder
RESIZE_DEFAULT == "crop"

\* process.platform is not win32
rootCmd == "convert"

\* the option record every Converter starts from
optionsDefaults ==
  [path |-> Str(rootCmd), srcData |-> Null, srcFormat |-> Null,
   width |-> Null, height |-> Null, resize |-> Str(RESIZE_DEFAULT),
   density |-> Num(600), background |-> Str("none"),
   gravity |-> Str("Center"), format |-> Null, quality |-> Num(75),
   blur |-> Null, rotate |-> Null, flip |-> Bool(FALSE), alpha |-> Null,
   clip |-> Null, alpha2 |-> Null, strip |-> Bool(TRUE)]

OptionKeys == DOMAIN optionsDefaults

\* the attributes getArgs turns into flags; a Set iterates in insertion
\* order
attributesMap ==
  << "density", "background", "gravity", "quality", "blur", "rotate",
     "flip", "alpha", "clip", "alpha2", "strip" >>

\* the mark of a key that an options object does not have
Absent == [t |-> "absent", s |-> "", b |-> << >>, n |-> 0]

\* the options object {}: no key
NoOptions == [k \in OptionKeys |-> Absent]

\* caller values win only when they are truthy
ConstructorFallsBack(obj) ==
  [k \in OptionKeys |->
     IF obj[k] # Absent /\ Truthy(obj[k])
       THEN obj[k] ELSE optionsDefaults[k]]

\* new Converter(obj): this.options holds {...optionsDefaults, ...obj},
\* every key the caller's object has over the default of that key
Constructor(obj) ==
  [k \in OptionKeys |->
     IF obj[k] # Absent THEN obj[k] ELSE optionsDefaults[k]]

\* one decimal digit
Digit(d) == SubSeq("0123456789", d + 1, d + 1)

RECURSIVE Decimal(_)
\* the decimal digits of a natural number
Decimal(k) ==
  IF k < 10 THEN Digit(k) ELSE Decimal(k \div 10) \o Digit(k % 10)

\* the string form of an integer
NumberToString(k) == IF k < 0 THEN "-" \o Decimal(0 - k) ELSE Decimal(k)

\* the string form of a value, as a template literal and Array.join take it
ToStr(v) ==
  CASE v.t = "string" -> v.s
    [] v.t = "number" -> NumberToString(v.n)
    [] v.t = "boolean" -> IF v.n = 1 THEN "true" ELSE "false"
    [] v.t = "Buffer" -> Utf8(v.b)
    [] v.t = "Error" -> "Error: " \o v.s
    [] OTHER -> v.t

\* value === 0
IsZero(v) == v.t = "number" /\ v.n = 0

\* a parameter declared (x = null): undefined becomes null
DefaultNull(v) == IF v = Undefined THEN Null ELSE v

\* the text Array.join gives one element: nothing for null and undefined
JoinItem(v) == IF v.t \in {"null", "undefined"} THEN "" ELSE ToStr(v)

RECURSIVE Join(_, _)
\* list.join(sep)
Join(list, sep) ==
  IF list = << >> THEN ""
  ELSE IF Len(list) = 1 THEN JoinItem(list[1])
  ELSE JoinItem(Head(list)) \o sep \o Join(Tail(list), sep)

\* the format is joined in whether or not there is one
GetHandleAlwaysColon(format, name) ==
  Join(<< DefaultNull(format),
          IF Truthy(DefaultNull(name)) THEN name ELSE Str("-") >>, ":")

\* getHandle(format = null, name = null)
GetHandle(format, name) ==
  LET f == DefaultNull(format)
      nm == DefaultNull(name)
      occurrence == IF Truthy(f) THEN << f >> ELSE << >>
  IN Join(Append(occurrence, IF Truthy(nm) THEN nm ELSE Str("-")), ":")

\* a width of 0 taken for no width
GeometryFactoryTruthyWidth(o) ==
  LET w == o["width"]
      h == o["height"]
      size == << IF Truthy(w) THEN w ELSE Str("") >>
  IN Join(IF Truthy(h) \/ IsZero(h) THEN Append(size, h) ELSE size, "x")

\* geometryFactory()
GeometryFactory(o) ==
  LET w == o["width"]
      h == o["height"]
      size == << IF Truthy(w) \/ IsZero(w) THEN w ELSE Str("") >>
  IN Join(IF Truthy(h) \/ IsZero(h) THEN Append(size, h) ELSE size, "x")

\* the three presets of resizeFactory for a geometry
ResizeMap(geometry) ==
  [fit |-> "-resize " \o geometry,
   fill |-> "-resize " \o geometry \o "!",
   crop |-> "-resize " \o geometry \o "^ -crop " \o geometry \o "+0+0!"]

\* resizeMap.get(key): undefined (here the empty text) for any other key
ResizeMapGet(geometry, key) ==
  IF key.t = "string" /\ key.s \in DOMAIN ResizeMap(geometry)
    THEN ResizeMap(geometry)[key.s] ELSE ""

\* an unknown preset gives no clause
ResizeFactoryNoFallback(o) ==
  LET resize == o["resize"]
      geometry == GeometryFactory(o)
  IN IF ~Truthy(resize) \/ geometry = "" THEN ""
     ELSE ResizeMapGet(geometry, resize)

\* resizeFactory()
ResizeFactory(o) ==
  LET resize == o["resize"]
      geometry == GeometryFactory(o)
  IN IF ~Truthy(resize) \/ geometry = "" THEN ""
     ELSE IF ResizeMapGet(geometry, resize) # ""
       THEN ResizeMapGet(geometry, resize)
       ELSE ResizeMapGet(geometry, Str(RESIZE_DEFAULT))

\* nothing is removed
KeepDigits(name) == name

RECURSIVE StripTrailingDigits(_)
\* attribute.replace(/\d*$/, ''): the name without the digits it ends in
StripTrailingDigits(name) ==
  IF name # "" /\ SubSeq(name, Len(name), Len(name)) \in
                     {Digit(d) : d \in 0 .. 9}
    THEN StripTrailingDigits(SubSeq(name, 1, Len(name) - 1))
    ELSE name

\* the number 0 not let through
EmitsTruthyOnly(value) == Truthy(value)

\* if (value || value === 0)
Emits(value) == Truthy(value) \/ IsZero(value)

\* the body of the loop of getArgs: what one attribute pushes
AttributeTokens(attribute, value) ==
  IF Emits(value)
    THEN << "-" \o StripTrailingDigits(attribute) >> \o
         (IF value.t # "boolean" THEN << ToStr(value) >> ELSE << >>)
    ELSE << >>

RECURSIVE AttributeArgs(_, _, _)
\* for (const attribute of attributesMap), from the i-th attribute on, with
\* args as pushed so far
AttributeArgs(o, i, args) ==
  IF i > Len(attributesMap) THEN args
  ELSE AttributeArgs(o, i + 1,
         args \o AttributeTokens(attributesMap[i], o[attributesMap[i]]))

\* the resize clause pushed ahead of the attributes
GetArgsResizeFirst(o, origin, result) ==
  LET resize == ResizeFactory(o)
      first == IF resize # "" THEN << origin, resize >> ELSE << origin >>
  IN Append(AttributeArgs(o, 1, first), result)

\* getArgs(origin, result)
GetArgs(o, origin, result) ==
  LET resize == ResizeFactory(o)
      withAttributes == AttributeArgs(o, 1, << origin >>)
      withResize == IF resize # "" THEN Append(withAttributes, resize)
                    ELSE withAttributes
  IN Append(withResize, result)

\* no command composed yet
NoCommand == [origin |-> "", result |-> "", args |-> << >>]

\* the first three statements of the try block: the two handles and the
\* argument list spawn is given
Compose(o) ==
  LET origin == GetHandle(o["srcFormat"], Undefined)
      result == GetHandle(o["format"], Undefined)
  IN [origin |-> origin, result |-> result,
      args |-> GetArgs(o, origin, result)]

\* ------------------------------------------------------------- history
\* the first event of a run that has a settling listener
First(r, ev) ==
  [firstEv EXCEPT ![r] = IF firstEv[r] = NoEvent THEN ev ELSE firstEv[r]]

\* how often run r's promise outcome was written in this step
Written(r) ==
  IF promise'[r] # promise[r] /\ promise'[r].state # "pending" THEN 1 ELSE 0

\* the settlement count of every run, kept up to date
Count == nSettle' = [q \in Runs |-> nSettle[q] + Written(q)]

\* ----------------------------------------------------------------- Init
\* no conversion started yet
InitRuns ==
  /\ mode = [r \in Runs |-> "idle"]
  /\ promise = [r \in Runs |-> NoPromise]
  /\ store = [r \in Runs |-> << >>]
  /\ stdin = [r \in Runs |-> "open"]
  /\ proc = [r \in Runs |-> "none"]
  /\ killed = [r \in Runs |-> FALSE]
  /\ outState = [r \in Runs |-> "open"]
  /\ sinks = [r \in Runs |-> << >>]
  /\ exitHooks = << >>
  /\ host = "up"
  /\ nSteps = 0
  /\ delivered = [r \in Runs |-> << >>]
  /\ firstEv = [r \in Runs |-> NoEvent]
  /\ diag = [r \in Runs |-> "none"]
  /\ nSettle = [r \in Runs |-> 0]

\* the conversions of a Converter whose command is left aside: no listener
\* reads the argument list
Init ==
  /\ InitRuns
  /\ given = NoOptions
  /\ options = NoOptions
  /\ command = NoCommand

\* the program's and the environment's state, without the step count
state ==
  << mode, promise, store, stdin, proc, killed, outState, sinks, exitHooks,
     host, delivered, firstEv, diag >>

\* one more step of the behaviour; an event that changes nothing (its
\* listener ignored it) is a stuttering step and is not counted
Step == nSteps' = IF state' # state THEN nSteps + 1 ELSE nSteps

\* runs are numbered in the order they are started
CanStart(r) ==
  /\ host = "up"
  /\ nSteps < MaxSteps
  /\ mode[r] = "idle"
  /\ IF r = 1 THEN TRUE ELSE mode[r - 1] # "idle"

\* ------------------------------------------------------------ operations
\* the try block of proceed: spawn, the listeners, cp.stdin.end(source),
\* process.on('exit'); a throw inside it is caught and rejects
ProceedSpawn(r, source, outcome) ==
  IF outcome = "throw"
    THEN /\ promise' = [promise EXCEPT ![r] = OnCatch(PendingPromise, ThrownErr)]
         /\ UNCHANGED << proc, stdin, exitHooks >>
    ELSE /\ promise' = [promise EXCEPT ![r] = PendingPromise]
         /\ proc' = [proc EXCEPT ![r] = Spawned(outcome)]
         /\ stdin' = [stdin EXCEPT ![r] = StdinEnd(stdin[r], source)]
         /\ exitHooks' = RegisterExitHook(exitHooks, r)

\* converter.proceed() with options.srcData = source
Proceed(r, source) ==
  /\ CanStart(r)
  /\ mode' = [mode EXCEPT ![r] = "proceed"]
  /\ IF Valid(source)
       THEN \E outcome \in SpawnOutcomes : ProceedSpawn(r, source, outcome)
       ELSE /\ promise' =
                 [promise EXCEPT ![r] = Reject(PendingPromise, InvalidInput)]
            /\ UNCHANGED << proc, stdin, exitHooks >>
  /\ UNCHANGED << store, killed, outState, sinks, host, delivered,
                  firstEv, diag >>
  /\ UNCHANGED buildVars
  /\ Step
  /\ Count

\* the try block of pipe: spawn, the listeners, the Fork over the n
\* destination streams, process.on('exit'), cp.stdin.end(source)
PipeSpawn(r, n, source, outcome) ==
  IF outcome = "throw"
    THEN /\ promise' = [promise EXCEPT ![r] = OnCatch(PendingPromise, ThrownErr)]
         /\ UNCHANGED << proc, stdin, exitHooks, sinks >>
    ELSE /\ promise' = [promise EXCEPT ![r] = PendingPromise]
         /\ proc' = [proc EXCEPT ![r] = Spawned(outcome)]
         /\ sinks' = [sinks EXCEPT ![r] = [i \in 1 .. n |-> "open"]]
         /\ exitHooks' = RegisterExitHook(exitHooks, r)
         /\ stdin' = [stdin EXCEPT ![r] = StdinEnd(stdin[r], source)]

\* converter.pipe(streams) with n destination streams and
\* options.srcData = source; the throw of the async function rejects the
\* promise it returns
Pipe(r, n, source) ==
  /\ CanStart(r)
  /\ mode' = [mode EXCEPT ![r] = "pipe"]
  /\ IF Valid(source)
       THEN \E outcome \in SpawnOutcomes : PipeSpawn(r, n, source, outcome)
       ELSE /\ promise' =
                 [promise EXCEPT ![r] = Reject(PendingPromise, InvalidInput)]
            /\ UNCHANGED << proc, stdin, exitHooks, sinks >>
  /\ UNCHANGED << store, killed, outState, host, delivered, firstEv,
                  diag >>
  /\ UNCHANGED buildVars
  /\ Step
  /\ Count

\* --------------------------------------------------------------- events
\* the environment can deliver one more event of run r's child process. A
\* failed spawn is reported first (on the next tick, ahead of any I/O).
CanDeliver(r) ==
  /\ host = "up"
  /\ proc[r] \in {"running", "exited", "gone"}
  /\ nSteps < MaxSteps

\* cp emits 'error': the spawn failed
CpError(r) ==
  /\ host = "up"
  /\ nSteps < MaxSteps
  /\ proc[r] = "failed"
  /\ proc' = [proc EXCEPT ![r] = "gone"]
  /\ promise' = [promise EXCEPT ![r] = OnError(promise[r], SpawnErr)]
  /\ firstEv' = First(r, Event("cp.error", SpawnErr))
  /\ UNCHANGED << mode, store, stdin, killed, outState, sinks,
                  exitHooks, host, delivered, diag >>
  /\ UNCHANGED buildVars
  /\ Step
  /\ Count

\* cp.stdout emits 'error'
StdoutError(r) ==
  /\ CanDeliver(r)
  /\ promise' = [promise EXCEPT ![r] = OnError(promise[r], StdoutErr)]
  /\ firstEv' = First(r, Event("stdout.error", StdoutErr))
  /\ UNCHANGED << mode, store, stdin, proc, killed, outState, sinks,
                  exitHooks, host, delivered, diag >>
  /\ UNCHANGED buildVars
  /\ Step
  /\ Count

\* cp.stderr emits 'error'
StderrError(r) ==
  /\ CanDeliver(r)
  /\ promise' = [promise EXCEPT ![r] = OnError(promise[r], StderrErr)]
  /\ firstEv' = First(r, Event("stderr.error", StderrErr))
  /\ UNCHANGED << mode, store, stdin, proc, killed, outState, sinks,
                  exitHooks, host, delivered, diag >>
  /\ UNCHANGED buildVars
  /\ Step
  /\ Count

\* cp.stdin emits 'error' (EPIPE: the child went away before it read its
\* input). convert.js attaches no listener to it, so the EventEmitter throws
\* the error, nothing catches it, and the host process dies: it emits
\* 'exit', whose listeners run.
StdinError(r) ==
  /\ CanDeliver(r)
  /\ host' = "crashed"
  /\ killed' = RunExitHooks(exitHooks, killed)
  /\ UNCHANGED << mode, promise, store, stdin, proc, outState, sinks,
                  exitHooks, delivered, firstEv, diag >>
  /\ UNCHANGED buildVars
  /\ Step
  /\ Count

\* cp.stdout emits 'data' with chunk c (buffered conversion)
StdoutData(r, c) ==
  /\ CanDeliver(r)
  /\ mode[r] = "proceed"
  /\ outState[r] = "open"
  /\ Len(store[r]) < MaxChunks
  /\ store' = [store EXCEPT ![r] = OnStdoutData(store[r], Buf(c))]
  /\ delivered' = [delivered EXCEPT ![r] = delivered[r] \o c]
  /\ UNCHANGED << mode, promise, stdin, proc, killed, outState, sinks,
                  exitHooks, host, firstEv, diag >>
  /\ UNCHANGED buildVars
  /\ Step
  /\ Count

\* cp.stdout emits 'end'. In a buffered conversion the 'end' listener
\* runs; in a fan-out conversion cp.stdout.pipe(fork) ends the Fork.
StdoutEnd(r) ==
  /\ CanDeliver(r)
  /\ outState[r] = "open"
  /\ outState' = [outState EXCEPT ![r] = "ended"]
  /\ IF mode[r] = "proceed"
       THEN /\ promise' =
                 [promise EXCEPT ![r] = OnStdoutEnd(promise[r], store[r])]
            /\ firstEv' = First(r, Event("stdout.end", Buf(delivered[r])))
       ELSE UNCHANGED << promise, firstEv >>
  /\ UNCHANGED << mode, store, stdin, proc, killed, sinks, exitHooks, host,
                  delivered, diag >>
  /\ UNCHANGED buildVars
  /\ Step
  /\ Count

\* cp.stderr emits 'data' with chunk c
StderrData(r, c) ==
  /\ CanDeliver(r)
  /\ promise' = [promise EXCEPT ![r] = OnStderrData(promise[r], Buf(c))]
  /\ firstEv' = First(r, Event("stderr.data", Buf(c)))
  /\ diag' = [diag EXCEPT ![r] =
                IF promise[r].state # "fulfilled" THEN "live"
                ELSE IF diag[r] = "none" THEN "late" ELSE diag[r]]
  /\ UNCHANGED << mode, store, stdin, proc, killed, outState, sinks,
                  exitHooks, host, delivered >>
  /\ UNCHANGED buildVars
  /\ Step
  /\ Count

\* the child process exits; convert.js listens to neither 'exit' nor 'close'
ProcExit(r) ==
  /\ CanDeliver(r)
  /\ proc[r] = "running"
  /\ proc' = [proc EXCEPT ![r] = "exited"]
  /\ UNCHANGED << mode, promise, store, stdin, killed, outState, sinks,
                  exitHooks, host, delivered, firstEv, diag >>
  /\ UNCHANGED buildVars
  /\ Step
  /\ Count

\* the host process emits 'exit': every registered listener runs
HostExit ==
  /\ host = "up"
  /\ nSteps < MaxSteps
  /\ host' = "exited"
  /\ killed' = RunExitHooks(exitHooks, killed)
  /\ UNCHANGED << mode, promise, store, stdin, proc, outState, sinks,
                  exitHooks, delivered, firstEv, diag >>
  /\ UNCHANGED buildVars
  /\ Step
  /\ Count

\* ----------------------------------------------------------------- Fork
\* The Fork writable (package stream-fork) writes what cp.stdout pipes
\* into it to every destination stream, ends them when it is ended, emits
\* 'finish' once every destination stream has finished, and emits 'error'
\* with the error of a destination stream that fails.
ForkCanFinish(r) ==
  /\ mode[r] = "pipe"
  /\ outState[r] = "ended"
  /\ \A i \in 1 .. Len(sinks[r]) : sinks[r][i] = "finished"

SinkOpen(r, i) ==
  /\ mode[r] = "pipe"
  /\ i \in 1 .. Len(sinks[r])
  /\ sinks[r][i] = "open"

\* destination stream i of run r finishes (the Fork has ended it)
SinkFinish(r, i) ==
  /\ CanDeliver(r)
  /\ SinkOpen(r, i)
  /\ outState[r] = "ended"
  /\ sinks' = [sinks EXCEPT ![r][i] = "finished"]
  /\ UNCHANGED << mode, promise, store, stdin, proc, killed, outState,
                  exitHooks, host, delivered, firstEv, diag >>
  /\ UNCHANGED buildVars
  /\ Step
  /\ Count

\* destination stream i of run r fails: the Fork emits 'error'
SinkError(r, i) ==
  /\ CanDeliver(r)
  /\ SinkOpen(r, i)
  /\ sinks' = [sinks EXCEPT ![r][i] = "errored"]
  /\ promise' = [promise EXCEPT ![r] = OnForkError(promise[r], SinkErr(i))]
  /\ firstEv' = First(r, Event("fork.error", SinkErr(i)))
  /\ UNCHANGED << mode, store, stdin, proc, killed, outState, exitHooks,
                  host, delivered, diag >>
  /\ UNCHANGED buildVars
  /\ Step
  /\ Count

\* the Fork emits 'finish'
ForkFinish(r) ==
  /\ CanDeliver(r)
  /\ ForkCanFinish(r)
  /\ outState' = [outState EXCEPT ![r] = "finished"]
  /\ promise' = [promise EXCEPT ![r] = OnForkFinish(promise[r])]
  /\ firstEv' = First(r, Event("fork.finish", Undefined))
  /\ UNCHANGED << mode, store, stdin, proc, killed, sinks, exitHooks, host,
                  delivered, diag >>
  /\ UNCHANGED buildVars
  /\ Step
  /\ Count

\* ------------------------------------------------------- specification
Next ==
  \/ \E r \in Runs, source \in Sources : Proceed(r, source)
  \/ \E r \in Runs, n \in 1 .. MaxSinks, source \in Sources :
       Pipe(r, n, source)
  \/ \E r \in Runs : CpError(r)
  \/ \E r \in Runs : StdoutError(r)
  \/ \E r \in Runs : StderrError(r)
  \/ \E r \in Runs : StdinError(r)
  \/ \E r \in Runs, c \in Chunks : StdoutData(r, c)
  \/ \E r \in Runs : StdoutEnd(r)
  \/ \E r \in Runs, c \in Chunks : StderrData(r, c)
  \/ \E r \in Runs : ProcExit(r)
  \/ \E r \in Runs, i \in 1 .. MaxSinks : SinkFinish(r, i)
  \/ \E r \in Runs, i \in 1 .. MaxSinks : SinkError(r, i)
  \/ \E r \in Runs : ForkFinish(r)
  \/ HostExit

Spec == Init /\ [][Next]_vars

\* ------------------------------------------------ command composition
\* the values a caller may give each option
GivenValues(k) ==
  CASE k = "path" -> {Str("magick")}
    [] k = "srcData" -> {Buf(<<97>>)}
    [] k = "srcFormat" -> {Str("PNG"), Undefined}
    [] k = "format" -> {Str("JPEG"), Str("")}
    [] k = "width" -> {Num(0), Num(100), Num(200)}
    [] k = "height" -> {Num(0), Num(50)}
    [] k = "resize" -> {Null, Str("fit"), Str("fill"), Str("scale")}
    [] k = "density" -> {Null, Num(72)}
    [] k = "background" -> {Str(""), Str("white")}
    [] k = "gravity" -> {Undefined, Str("North")}
    [] k = "quality" -> {Num(0), Num(90)}
    [] k = "blur" -> {Num(0), Str("0x8")}
    [] k = "rotate" -> {Num(0), Num(0 - 90)}
    [] k = "flip" -> {Bool(TRUE), Bool(FALSE)}
    [] k = "alpha" -> {Num(5), Str("on")}
    [] k = "clip" -> {Bool(TRUE)}
    [] k = "alpha2" -> {Num(7), Num(5)}
    [] k = "strip" -> {Bool(FALSE)}

\* the option keys in the order optionsDefaults lists them
KeyOrder ==
  << "path", "srcData", "srcFormat", "width", "height", "resize", "density",
     "background", "gravity", "format", "quality", "blur", "rotate", "flip",
     "alpha", "clip", "alpha2", "strip" >>

RECURSIVE GivenFrom(_, _, _)
\* given is obj, or obj with at most n more keys, taken from the i-th on
GivenFrom(obj, i, n) ==
  \/ given = obj
  \/ /\ n > 0
     /\ \E j \in i .. Len(KeyOrder) :
          \E v \in GivenValues(KeyOrder[j]) :
            GivenFrom([obj EXCEPT ![KeyOrder[j]] = v], j + 1, n - 1)

\* a caller holding an options object of at most MaxGiven keys, no
\* Converter constructed yet
InitBuild ==
  /\ InitRuns
  /\ GivenFrom(NoOptions, 1, MaxGiven)
  /\ options = NoOptions
  /\ command = NoCommand

\* new Converter(given)
Construct ==
  /\ options = NoOptions
  /\ options' = Constructor(given)
  /\ UNCHANGED << given, command, runVars >>

\* the command of a conversion is composed: getHandle twice and getArgs
ComposeCommand ==
  /\ options # NoOptions
  /\ command = NoCommand
  /\ command' = Compose(options)
  /\ UNCHANGED << given, options, runVars >>

NextBuild == Construct \/ ComposeCommand

SpecBuild == InitBuild /\ [][NextBuild]_vars

\* --------------------------------------------------------------- claims
\* a listener of process 'exit' kills run r's child
Hooked(r) == \E i \in 1 .. Len(exitHooks) : exitHooks[i] = r

\* spawn() of run r started a child process
WasSpawned(r) == proc[r] \in {"running", "exited"}

\* the text of each chunk, written out
ChunkText(c) ==
  CASE c = <<97>> -> "a"
    [] c = <<98, 97>> -> "ba"

\* a call of proceed or pipe with an invalid srcData rejects with the
\* invalid-input error, spawns nothing and registers no exit listener
C1_InvalidInputStep ==
  \A r \in Runs :
    (mode[r] = "idle" /\ mode'[r] # "idle")
    => \A source \in Sources, n \in 1 .. MaxSinks :
         (/\ source.t \in {"undefined", "null", "string"}
          /\ Proceed(r, source) \/ Pipe(r, n, source))
         => /\ promise'[r] = Rejected(InvalidInput)
            /\ proc'[r] = "none"
            /\ exitHooks' = exitHooks

\* a run that failed with the invalid-input error has no child process, no
\* written input and no exit listener
C1_InvalidInputState ==
  \A r \in Runs :
    promise[r] = Rejected(InvalidInput)
    => proc[r] = "none" /\ stdin[r] = "open" /\ ~Hooked(r)

\* C1: proceed and pipe called with srcData absent, null or not a Buffer
\* reject with the invalid-input error, spawn nothing and register no exit
\* listener; and such a run never has a child process, written input or an
\* exit listener afterwards.
C1_InvalidInputSpawnsNothing ==
  [][C1_InvalidInputStep]_vars /\ []C1_InvalidInputState

\* a buffered and a fan-out run, both rejected for their srcData
C1_Witness ==
  \E r, q \in Runs :
    /\ mode[r] = "proceed" /\ promise[r] = Rejected(InvalidInput)
    /\ mode[q] = "pipe" /\ promise[q] = Rejected(InvalidInput)

\* what the listener of an event does to a pending promise
Outcome(ev) ==
  CASE ev.kind \in {"cp.error", "stdout.error", "stderr.error"} ->
         Rejected(Str("Error: " \o ev.val.s))
    [] ev.kind = "stderr.data" -> Rejected(Str(ChunkText(ev.val.b)))
    [] ev.kind = "fork.error" -> Rejected(ev.val)
    [] ev.kind = "stdout.end" -> Fulfilled(ev.val)
    [] ev.kind = "fork.finish" -> Fulfilled(Undefined)

\* the first event with a settling listener decides the outcome
C2_FirstWins ==
  \A r \in Runs : firstEv[r] # NoEvent => promise[r] = Outcome(firstEv[r])

\* no step changes the outcome of a settled run
C2_Stable == \A r \in Runs : Settled(r) => promise'[r] = promise[r]

\* C2: for every interleaving of a run's events the settlement is written
\* at most once: the first event with a settling listener decides the
\* outcome and its value, and no later event changes them.
C2_SettledOnce == []C2_FirstWins /\ [][C2_Stable]_vars

\* a fan-out run rejected by a destination stream's error that received
\* stderr data and stdout end afterwards
C2_Witness ==
  \E r \in Runs :
    /\ mode[r] = "pipe"
    /\ firstEv[r].kind = "fork.error"
    /\ diag[r] = "live"
    /\ outState[r] = "ended"

\* one step of a buffered run, as C3 states it
C3_StderrStep ==
  \A r \in Runs :
    /\ \A c \in Chunks :
         (mode[r] = "proceed" /\ Pending(r) /\ StderrData(r, c))
         => promise'[r] = Rejected(Str(ChunkText(c)))
    /\ (mode[r] = "proceed" /\ promise[r].state = "rejected")
       => promise'[r] = promise[r]

\* C3: in a buffered conversion a stderr data event that finds the run
\* unsettled rejects it in that step with exactly the chunk's text, and a
\* rejected buffered run stays rejected with the same value whatever stdout
\* emits afterwards.
C3_StderrSettlesAtOnce == [][C3_StderrStep]_vars

\* a buffered run rejected with the stderr text "ba" whose stdout went on
\* to deliver data and end
C3_Witness ==
  \E r \in Runs :
    /\ mode[r] = "proceed"
    /\ firstEv[r] = Event("stderr.data", Buf(<<98, 97>>))
    /\ promise[r] = Rejected(Str("ba"))
    /\ store[r] # << >>
    /\ outState[r] = "ended"

\* C4 as stated: a run whose stderr delivered a data event, at whatever
\* position, ends in failure.
C4_AnyStderrDataFails ==
  \A r \in Runs : diag[r] # "none" => promise[r].state = "rejected"

\* C4 amended: a run whose stderr delivered a data event before the run
\* had settled with success ends in failure; stderr data that arrives after
\* stdout end (or the Fork's finish) has settled the run with success is
\* ignored.
C4_LiveStderrDataFails ==
  \A r \in Runs : diag[r] = "live" => promise[r].state = "rejected"

\* a run rejected by stderr data around which stdout delivered data
C4_Witness ==
  \E r \in Runs :
    /\ diag[r] = "live"
    /\ firstEv[r].kind = "stderr.data"
    /\ delivered[r] # << >>
    /\ promise[r].state = "rejected"

\* C5: a buffered conversion that succeeded was settled by stdout end, and
\* its result is the bytes of the stdout data events in arrival order.
C5_ResultIsConcatenation ==
  \A r \in Runs :
    (mode[r] = "proceed" /\ promise[r].state = "fulfilled")
    => /\ promise[r].value = Buf(delivered[r])
       /\ firstEv[r].kind = "stdout.end"
       /\ outState[r] = "ended"

\* a buffered run fulfilled with the bytes of two different chunks
C5_Witness ==
  \E r \in Runs :
    /\ mode[r] = "proceed"
    /\ promise[r] = Fulfilled(Buf(<<98, 97, 97>>))
    /\ Len(store[r]) = 2

\* one step of a run, as C6 states it
C6_ErrorStep ==
  \A r \in Runs :
    /\ (Pending(r) /\ CpError(r))
       => promise'[r] = Rejected(Str("Error: spawn convert ENOENT"))
    /\ (Pending(r) /\ StdoutError(r))
       => promise'[r] = Rejected(Str("Error: read EIO"))
    /\ (Pending(r) /\ StderrError(r))
       => promise'[r] = Rejected(Str("Error: read ECONNRESET"))
    /\ (Pending(r) /\ StdinError(r))
       => promise'[r] = Rejected(Str("Error: write EPIPE"))

\* C6: an error event of the child process, its stdin, its stdout or its
\* stderr that finds the run unsettled rejects it with the error's
\* description.
C6_EveryErrorSettles == [][C6_ErrorStep]_vars

\* C7: there are never more exit listeners than unsettled conversions.
C7_HooksBoundedByUnsettled ==
  Len(exitHooks) <= Cardinality({r \in Runs : Pending(r)})

\* C8: a settled run's child process is not left running without a kill.
C8_NoChildLeftRunning ==
  \A r \in Runs : (Settled(r) /\ proc[r] = "running") => killed[r]

C10_SinkErrorSettlesOnce ==
  \A r \in Runs :
    (mode[r] = "pipe" /\ Len(sinks[r]) >= 2 /\ firstEv[r].kind = "fork.error")
    => /\ promise[r] = Rejected(firstEv[r].val)
       /\ nSettle[r] = 1

\* two destination streams failed one after the other; the run carries the
\* error of the first
C10_Witness ==
  \E r \in Runs :
    /\ mode[r] = "pipe"
    /\ sinks[r] = << "errored", "errored" >>
    /\ firstEv[r] = Event("fork.error", SinkErr(2))
    /\ promise[r] = Rejected(SinkErr(2))

\* C11: a fan-out conversion that succeeded was settled by the Fork's
\* finish, and every one of its destination streams has finished: none is
\* still open and none has reported an error.
C11_SuccessNeedsEverySink ==
  \A r \in Runs :
    (mode[r] = "pipe" /\ promise[r].state = "fulfilled")
    => /\ \A i \in 1 .. Len(sinks[r]) : sinks[r][i] = "finished"
       /\ firstEv[r].kind = "fork.finish"
       /\ outState[r] = "finished"

\* a fan-out run that succeeded after its destination stream finished
C11_Witness ==
  \E r \in Runs :
    /\ mode[r] = "pipe"
    /\ promise[r] = Fulfilled(Undefined)
    /\ Len(sinks[r]) >= 1
    /\ \A i \in 1 .. Len(sinks[r]) : sinks[r][i] = "finished"

\* a Converter was constructed
Constructed == options # NoOptions

\* its command was composed
Composed == command # NoCommand

\* the attribute names
Attributes == {attributesMap[i] : i \in 1 .. Len(attributesMap)}

\* the text of each value an option may hold, written out
Shown(v) ==
  CASE v.t = "string" -> v.s
    [] v = Num(0) -> "0"
    [] v = Num(5) -> "5"
    [] v = Num(7) -> "7"
    [] v = Num(50) -> "50"
    [] v = Num(72) -> "72"
    [] v = Num(75) -> "75"
    [] v = Num(90) -> "90"
    [] v = Num(100) -> "100"
    [] v = Num(200) -> "200"
    [] v = Num(600) -> "600"
    [] v = Num(0 - 90) -> "-90"
    [] v = Bool(TRUE) -> "true"
    [] v = Bool(FALSE) -> "false"
    [] OTHER -> "?"

\* the flag of each attribute, written out
FlagOf(a) == IF a = "alpha2" THEN "-alpha" ELSE "-" \o a

\* the value makes its attribute emit tokens: it is none of null,
\* undefined, false and the empty string (every other value of the model is
\* truthy or the number 0)
Present(v) ==
  /\ v.t \notin {"null", "undefined"}
  /\ v # Bool(FALSE)
  /\ v # Str("")

\* the positions of a token in the argument list
Where(tok) == {i \in 1 .. Len(command.args) : command.args[i] = tok}

\* the token is a resize clause
IsClause(tok) == Len(tok) >= 8 /\ SubSeq(tok, 1, 8) = "-resize "

\* the positions of the resize clauses in the argument list
Clauses == {i \in 1 .. Len(command.args) : IsClause(command.args[i])}

RECURSIVE FlagTokens(_)
\* the tokens of the i-th and the later attributes, in the order of the
\* attribute set
FlagTokens(i) ==
  IF i > Len(attributesMap) THEN << >>
  ELSE LET a == attributesMap[i]
           v == options[a]
       IN (IF ~Present(v) THEN << >>
           ELSE IF v.t = "boolean" THEN << FlagOf(a) >>
           ELSE << FlagOf(a), Shown(v) >>) \o FlagTokens(i + 1)

\* C12: the argument list is the origin handle, then the tokens of the
\* attributes in the order of the attribute set, then the resize clause as
\* one element when there is one, then the destination handle.
C12_TokenOrder ==
  Composed =>
    LET args == command.args
        n == Len(args)
        k == Len(FlagTokens(1))
    IN /\ n >= 2
       /\ args[1] = command.origin
       /\ args[n] = command.result
       /\ SubSeq(args, 2, k + 1) = FlagTokens(1)
       /\ Clauses \subseteq {n - 1}
       /\ n = k + 2 + Cardinality(Clauses)

\* a command with the five default attributes, the crop clause of 100x50
\* and both handles
C12_Witness ==
  command.args =
    << "PNG:-", "-density", "600", "-background", "none", "-gravity",
       "Center", "-quality", "75", "-strip",
       "-resize 100x50^ -crop 100x50+0+0!", "JPEG:-" >>

\* C13: an attribute emits tokens exactly when its value is truthy or the
\* number 0 (null, undefined, false and the empty string emit nothing); its
\* flag is - and the attribute's name without the digits it ends in; one
\* token with the value's text follows the flag exactly when the value is
\* not a boolean, so an attribute set to true emits its flag alone.
C13_AttributeTokens ==
  Composed =>
    LET args == command.args
        emitting == {a \in Attributes : Present(options[a])}
        valued == {a \in emitting : options[a].t # "boolean"}
    IN /\ \A a \in Attributes :
            LET v == options[a]
                f == FlagOf(a)
            IN /\ Present(v) <=> (Truthy(v) \/ v = Num(0))
               /\ Cardinality(Where(f)) =
                    Cardinality({b \in emitting : FlagOf(b) = f})
               /\ a \in valued
                    => \E i \in Where(f) : args[i + 1] = Shown(v)
               /\ (a \in emitting /\ a \notin valued)
                    => \E i \in Where(f) : args[i + 1] # Shown(v)
       /\ Where("-alpha2") = {}
       /\ Len(args) = 2 + Cardinality(Clauses) + Cardinality(emitting)
                        + Cardinality(valued)

\* quality 0 and flip true emit, an empty background and an undefined
\* gravity do not
C13_Witness ==
  /\ given["quality"] = Num(0)
  /\ given["flip"] = Bool(TRUE)
  /\ given["background"] = Str("")
  /\ given["gravity"] = Undefined
  /\ command.args =
       << "-", "-density", "600", "-quality", "0", "-flip", "-strip", "-" >>

\* the least and the greatest position of the flag -alpha
FirstAlpha == CHOOSE i \in Where("-alpha") : \A j \in Where("-alpha") : i <= j
LastAlpha == CHOOSE i \in Where("-alpha") : \A j \in Where("-alpha") : j <= i

\* C14: when alpha and alpha2 are both given values, the argument list
\* holds the flag -alpha twice and no flag -alpha2, the first followed by
\* alpha's value and the second by alpha2's; alpha 5 and alpha2 7 read
\* -alpha 5 -alpha 7.
C14_BothAlphasEmitted ==
  (/\ Composed
   /\ given["alpha"] # Absent
   /\ given["alpha2"] # Absent)
  => LET args == command.args
     IN /\ Cardinality(Where("-alpha")) = 2
        /\ Where("-alpha2") = {}
        /\ args[FirstAlpha + 1] = Shown(given["alpha"])
        /\ args[LastAlpha + 1] = Shown(given["alpha2"])
        /\ (/\ given["alpha"] = Num(5)
            /\ given["alpha2"] = Num(7)
            /\ ~Present(options["clip"]))
           => SubSeq(args, FirstAlpha, FirstAlpha + 3) =
                << "-alpha", "5", "-alpha", "7" >>

\* alpha 5 and alpha2 7 among the default attributes
C14_Witness ==
  /\ given["alpha"] = Num(5)
  /\ given["alpha2"] = Num(7)
  /\ command.args =
       << "-", "-density", "600", "-background", "none", "-gravity",
          "Center", "-quality", "75", "-alpha", "5", "-alpha", "7",
          "-strip", "-" >>

\* the resize clause C15 gives a resize value and a geometry
ClauseFor(resize, g) ==
  IF ~Truthy(resize) \/ g = "" THEN ""
  ELSE IF resize = Str("fit") THEN "-resize " \o g
  ELSE IF resize = Str("fill") THEN "-resize " \o g \o "!"
  ELSE "-resize " \o g \o "^ -crop " \o g \o "+0+0!"

\* C15: with no resize value or an empty geometry no resize clause is
\* emitted; otherwise fit, fill and crop give their clause of the geometry
\* and every other value gives the clause of crop. Resize crop with width
\* 100 and height 50 gives -resize 100x50^ -crop 100x50+0+0!.
C15_ResizeClause ==
  Composed =>
    LET args == command.args
        n == Len(args)
        expected == ClauseFor(options["resize"], GeometryFactory(options))
    IN /\ expected = "" => Clauses = {}
       /\ expected # "" => (Clauses = {n - 1} /\ args[n - 1] = expected)
       /\ (/\ options["resize"] = Str("crop")
           /\ options["width"] = Num(100)
           /\ options["height"] = Num(50))
          => args[n - 1] = "-resize 100x50^ -crop 100x50+0+0!"

\* the unknown resize value scale, given with width 100 and height 50, has
\* the clause of crop
C15_Witness ==
  /\ given["resize"] = Str("scale")
  /\ Composed
  /\ command.args[Len(command.args) - 1] =
       "-resize 100x50^ -crop 100x50+0+0!"

\* the geometry C16 gives a width and a height
GeometryOf(w, h) ==
  (IF w.t = "null" THEN "" ELSE Shown(w)) \o
  (IF h.t = "null" THEN "" ELSE "x" \o Shown(h))

\* C16: the geometry is the width, nothing for no width and 0 for the
\* number 0, followed by x and the height when there is a height, 0
\* included. Width 0 alone gives 0 and a resize clause, no width and no
\* height give the empty geometry and no resize clause, a width alone has
\* no x, a height alone gives x and the height.
C16_Geometry ==
  Constructed =>
    LET w == options["width"]
        h == options["height"]
        g == GeometryOf(w, h)
        args == command.args
        n == Len(args)
    IN /\ GeometryFactory(options) = g
       /\ (w = Num(0) /\ h = Null) => g = "0"
       /\ (w = Null /\ h = Null) => g = ""
       /\ (w = Num(100) /\ h = Null) => g = "100"
       /\ (w = Null /\ h = Num(50)) => g = "x50"
       /\ (Composed /\ Truthy(options["resize"]))
          => IF g = "" THEN Clauses = {}
             ELSE /\ Clauses = {n - 1}
                  /\ Len(args[n - 1]) >= 8 + Len(g)
                  /\ SubSeq(args[n - 1], 1, 8 + Len(g)) = "-resize " \o g

\* width 0 with no height has the crop clause of the geometry 0
C16_Witness ==
  /\ given["width"] = Num(0)
  /\ options["height"] = Null
  /\ Composed
  /\ command.args[Len(command.args) - 1] = "-resize 0^ -crop 0+0+0!"

\* the handle C17 gives a format
HandleOf(format) ==
  IF format \in {Null, Undefined, Str("")} THEN "-"
  ELSE Shown(format) \o ":-"

\* C17: the handle is the format tag followed by :- and plain - when there
\* is no tag; the origin handle is that of srcFormat and the destination
\* handle that of format. With srcFormat PNG, format JPEG, width 200 and
\* resize fit the command is PNG:- ... -resize 200 JPEG:-.
C17_Handles ==
  Composed =>
    LET args == command.args
        n == Len(args)
    IN /\ command.origin = HandleOf(options["srcFormat"])
       /\ command.result = HandleOf(options["format"])
       /\ args[1] = HandleOf(options["srcFormat"])
       /\ args[n] = HandleOf(options["format"])
       /\ (/\ options["srcFormat"] = Str("PNG")
           /\ options["format"] = Str("JPEG")
           /\ options["width"] = Num(200)
           /\ options["height"] = Null
           /\ options["resize"] = Str("fit"))
          => /\ args[1] = "PNG:-"
             /\ args[n - 1] = "-resize 200"
             /\ args[n] = "JPEG:-"

\* the command of srcFormat PNG, format JPEG, width 200 and resize fit
C17_Witness ==
  /\ given["srcFormat"] = Str("PNG")
  /\ given["format"] = Str("JPEG")
  /\ given["width"] = Num(200)
  /\ given["resize"] = Str("fit")
  /\ command.args =
       << "PNG:-", "-density", "600", "-background", "none", "-gravity",
          "Center", "-quality", "75", "-strip", "-resize 200", "JPEG:-" >>

\* the caller's object has the key
Gave(k) == given[k] # Absent

\* C18: the configuration holds, key by key, the caller's value for a key
\* the caller gave, false, 0 and null included, and the default for a key
\* the caller left out: strip false and flip false emit no flag, quality 0
\* emits -quality 0, density null emits no -density, and the defaults are
\* density 600, background none, gravity Center, quality 75, resize crop
\* and strip true.
C18_CallerOverDefaults ==
  Constructed =>
    /\ \A k \in OptionKeys :
         options[k] = IF Gave(k) THEN given[k] ELSE optionsDefaults[k]
    /\ ~Gave("density") => options["density"] = Num(600)
    /\ ~Gave("background") => options["background"] = Str("none")
    /\ ~Gave("gravity") => options["gravity"] = Str("Center")
    /\ ~Gave("quality") => options["quality"] = Num(75)
    /\ ~Gave("resize") => options["resize"] = Str("crop")
    /\ ~Gave("strip") => options["strip"] = Bool(TRUE)
    /\ Composed =>
         /\ given["strip"] = Bool(FALSE) => Where("-strip") = {}
         /\ given["flip"] = Bool(FALSE) => Where("-flip") = {}
         /\ given["density"] = Null => Where("-density") = {}
         /\ given["quality"] = Num(0)
              => \E i \in Where("-quality") : command.args[i + 1] = "0"
         /\ ~Gave("density")
              => \E i \in Where("-density") : command.args[i + 1] = "600"
         /\ ~Gave("strip") => Where("-strip") # {}

\* strip false, flip false, quality 0 and density null, all given
C18_Witness ==
  /\ given["strip"] = Bool(FALSE)
  /\ given["flip"] = Bool(FALSE)
  /\ given["quality"] = Num(0)
  /\ given["density"] = Null
  /\ command.args =
       << "-", "-background", "none", "-gravity", "Center", "-quality",
          "0", "-" >>

\* one step of a buffered run, as C20 states it: the delivery of stdout
\* end, of stderr data or of an error event of the child process or of one
\* of its streams leaves the run settled
C20_EventStep ==
  \A r \in Runs :
    (mode[r] = "proceed" /\ Pending(r))
    => /\ StdoutEnd(r) => promise'[r].state # "pending"
       /\ (\E c \in Chunks : StderrData(r, c))
            => promise'[r].state # "pending"
       /\ CpError(r) => promise'[r].state # "pending"
       /\ StdoutError(r) => promise'[r].state # "pending"
       /\ StderrError(r) => promise'[r].state # "pending"
       /\ StdinError(r) => promise'[r].state # "pending"

\* C20: a buffered conversion that is running settles once its child
\* process has ended its stdout, written to stderr or emitted a process or
\* stream error event: no such event leaves the run unsettled.
C20_RunningRunSettles == [][C20_EventStep]_vars

====
